---- MODULE Spec2Model ----
(***************************************************************************)
(* PromptBooster: the content script's rewrite orchestration               *)
(* (src/unnamed/part_002, second revision, lines 1060-2675), the service   *)
(* worker that answers BOOST_PROMPT (src/src/background/serviceWorker.js)  *)
(* and the LLM client (src/src/common/apiClient.js).                       *)
(*                                                                         *)
(* Texts are sequences of characters over a small alphabet:                *)
(*   "sp" a blank, "nl" a line feed, "lt" the character <, the rest plain. *)
(***************************************************************************)
EXTENDS Naturals, Sequences, FiniteSets, TLC

VARIABLES
  stored,           \* chrome.storage.sync[STORAGE_KEY]
  currentSettings,  \* content script: let currentSettings
  notify,           \* a chrome.storage.onChanged event is waiting for delivery
  pendingSave,      \* content script: a saveSettings(next) call that has not written yet
  isProcessing,     \* content script: let isProcessing
  dom,              \* the host page: editor elements, composer form, send button
  pendingHistory,   \* content script: const pendingHistory
  jobs,             \* one record per rewrite request: the handler's closure and what it did
  preview,          \* the .promptbooster-inline panel, or NoPreview
  envCount,         \* number of events from outside that were no rewrite request
  bubbles,          \* the user messages the host page has rendered, in order
  optState,         \* options page: state.settings (state.items is its items)
  nativeSends,      \* the user's own sends: clicks on the send button, plain Enter
  ui                \* the injected controls: the Boost button and the mode-button host

vars == <<stored, currentSettings, notify, pendingSave, isProcessing, dom,
          pendingHistory, jobs, preview, envCount, bubbles, optState, nativeSends,
          ui>>

(***************************************************************************)
(* Bounds of the model.                                                    *)
(***************************************************************************)
MaxEvents == 2    \* events from outside after start-up: rewrite requests (Boost
                  \* clicks, Alt+Enter presses), typing, clicks on the header
                  \* buttons, saves of the options page, re-renders of the page

MaxBubbles == 1   \* user messages the host page renders

\* Another event from outside may still happen.
MoreEvents == Len(jobs) + envCount < MaxEvents

(***************************************************************************)
(* Text functions.                                                         *)
(***************************************************************************)
IsSpace(c) == c \in {"sp", "nl"}

RECURSIVE TrimLeft(_)
TrimLeft(s) ==
  IF s = <<>> THEN s
  ELSE IF IsSpace(Head(s)) THEN TrimLeft(Tail(s)) ELSE s

RECURSIVE TrimRight(_)
TrimRight(s) ==
  IF s = <<>> THEN s
  ELSE IF IsSpace(s[Len(s)]) THEN TrimRight(SubSeq(s, 1, Len(s) - 1)) ELSE s

\* A variant that leaves the text as it is
NoTrim(s) == s

\* String.prototype.trim
Trim(s) == TrimRight(TrimLeft(s))

\* String.prototype.split(/\n/): the lines of a text; "" gives one empty line.
RECURSIVE SplitLines(_)
SplitLines(s) ==
  IF \A i \in 1..Len(s) : s[i] # "nl" THEN <<s>>
  ELSE LET i == CHOOSE k \in 1..Len(s) :
                  s[k] = "nl" /\ \A m \in 1..(k - 1) : s[m] # "nl"
       IN <<SubSeq(s, 1, i - 1)>> \o SplitLines(SubSeq(s, i + 1, Len(s)))

\* Array.prototype.join(sep)
RECURSIVE Join(_, _)
Join(lines, sep) ==
  IF lines = <<>> THEN <<>>
  ELSE IF Len(lines) = 1 THEN lines[1]
  ELSE lines[1] \o sep \o Join(Tail(lines), sep)

\* A variant that puts the line into the markup unescaped
NoEscapeHtml(l) == l

\* escapeHtml: < becomes the entity &lt; (one token of markup)
EscapeHtml(l) == [i \in 1..Len(l) |-> IF l[i] = "lt" THEN "&lt;" ELSE l[i]]

\* What the HTML parser makes of the markup inside <p>...</p>: an entity is its
\* character, and a raw < opens a tag that swallows the rest of the line.
RECURSIVE ParseHtmlText(_)
ParseHtmlText(h) ==
  IF h = <<>> THEN <<>>
  ELSE IF Head(h) = "lt" THEN <<>>
  ELSE <<(IF Head(h) = "&lt;" THEN "lt" ELSE Head(h))>> \o ParseHtmlText(Tail(h))

\* setProseMirrorContent: one <p> per line (an empty line is <p><br></p>);
\* the result is the text content of each paragraph.
SetProseMirrorContent(text) ==
  LET lines == SplitLines(text)
  IN [i \in 1..Len(lines) |-> ParseHtmlText(EscapeHtml(lines[i]))]

(***************************************************************************)
(* Settings.  A settings object is a function from keys to values; the     *)
(* legacy key "bindings" is read by none of the code modelled and is left  *)
(* out.  Template bodies are abstracted to short texts.                    *)
(***************************************************************************)
NoId == "null"

NoItem == [id |-> NoId, type |-> "none", content |-> <<>>]

\* The stored template list: two of the seeded items and one Append item whose
\* body is blank (the handlers trim and test the body themselves).
StoredItems ==
  << [id |-> "replace_creative", type |-> "boosted", content |-> <<"i">>],
     [id |-> "append_wechat_cn", type |-> "append", content |-> <<"x", "sp">>],
     [id |-> "append_blank", type |-> "append", content |-> <<"sp">>] >>

DEFAULT_SETTINGS ==
  [apiKey |-> "", apiBaseUrl |-> "url", model |-> "gpt-4o-mini",
   previewBeforeSend |-> FALSE, items |-> StoredItems]

\* A variant of the spread in which the left object's keys win
KeepFirst(a, b) ==
  [k \in (DOMAIN a) \cup (DOMAIN b) |-> IF k \in DOMAIN a THEN a[k] ELSE b[k]]

\* { ...a, ...b }
MergeSettings(a, b) ==
  [k \in (DOMAIN a) \cup (DOMAIN b) |-> IF k \in DOMAIN b THEN b[k] ELSE a[k]]

\* getSettings(): the defaults overridden by what is stored
GetSettings == MergeSettings(DEFAULT_SETTINGS, stored)

\* saveSettings(partialUpdate): the value written and returned,
\* { ...(await getSettings()), ...partialUpdate }
SaveSettings(partialUpdate) == MergeSettings(GetSettings, partialUpdate)

\* What the options page's base form can save.
BaseForms ==
  { [apiKey |-> k, apiBaseUrl |-> "url", model |-> "gpt-4o-mini", previewBeforeSend |-> p] :
      k \in {"", "sk"}, p \in BOOLEAN }

ItemIds == {StoredItems[i].id : i \in 1..Len(StoredItems)}

\* getActiveItemId(): currentSettings?.activeItemId || null
GetActiveItemId ==
  IF "activeItemId" \in DOMAIN currentSettings THEN currentSettings.activeItemId ELSE NoId

\* A variant that falls back to the first template of the list
FirstItemIfNone ==
  LET id == GetActiveItemId
      items == currentSettings.items
      hits == {i \in 1..Len(items) : items[i].id = id}
  IN IF id # NoId /\ hits # {} THEN items[CHOOSE i \in hits : \A k \in hits : i <= k]
     ELSE IF items = <<>> THEN NoItem ELSE items[1]

\* getActiveItem(): the first template with the active id, or null
GetActiveItem ==
  LET id == GetActiveItemId
      items == currentSettings.items
      hits == {i \in 1..Len(items) : items[i].id = id}
  IN IF id = NoId \/ hits = {} THEN NoItem
     ELSE items[CHOOSE i \in hits : \A k \in hits : i <= k]

(***************************************************************************)
(* The host page.                                                          *)
(*   pm         div#prompt-textarea.ProseMirror is in the document         *)
(*   paras      the text content of each of its <p> children               *)
(*   ta         textarea[name="prompt-textarea"] is in the document        *)
(*   value      its value                                                  *)
(*   pmWired, taWired   el.__pbEnterWired                                  *)
(*   composer   a composer form is in the document                         *)
(*   inComposer the composer form contains the editor                      *)
(*   sendButton a send button is in the document                           *)
(*   submitGuard the composer carries a once-only capturing submit         *)
(*              listener that cancels the next submit event                *)
(***************************************************************************)
Layouts ==
  { [pm |-> TRUE,  ta |-> TRUE,  composer |-> TRUE,  inComposer |-> TRUE,  sendButton |-> TRUE],
    [pm |-> FALSE, ta |-> TRUE,  composer |-> TRUE,  inComposer |-> TRUE,  sendButton |-> TRUE],
    [pm |-> TRUE,  ta |-> FALSE, composer |-> FALSE, inComposer |-> FALSE, sendButton |-> TRUE],
    [pm |-> TRUE,  ta |-> FALSE, composer |-> TRUE,  inComposer |-> FALSE, sendButton |-> FALSE],
    [pm |-> FALSE, ta |-> FALSE, composer |-> TRUE,  inComposer |-> FALSE, sendButton |-> TRUE],
    [pm |-> FALSE, ta |-> FALSE, composer |-> FALSE, inComposer |-> FALSE, sendButton |-> FALSE] }

\* Drafts the user can have typed (raw, before any trimming).
Drafts == { <<"sp">>, <<"a", "sp">>, <<"a", "nl", "lt">> }

EmptyParas == << <<>> >>

\* findEditor(): the rich editor if present, else the textarea, else null
FindEditor(d) == IF d.pm THEN "prosemirror" ELSE IF d.ta THEN "textarea" ELSE "none"

\* Node.textContent of the rich editor: the paragraphs' texts, nothing between them
TextContent(paras) == Join(paras, <<>>)

\* readPrompt(): the trimmed text of the editor, '' without an editor
ReadPrompt(d) ==
  IF FindEditor(d) = "prosemirror" THEN Trim(TextContent(d.paras))
  ELSE IF FindEditor(d) = "textarea" THEN Trim(d.value)
  ELSE <<>>

\* writePrompt(text) returns false without an editor
WriteOk(d) == FindEditor(d) # "none"

\* writePrompt(text): the document after the write
WritePrompt(d, text) ==
  IF FindEditor(d) = "prosemirror"
  THEN [d EXCEPT !.paras = SetProseMirrorContent(text),
                 !.value = IF d.ta THEN text ELSE @]
  ELSE IF FindEditor(d) = "textarea" THEN [d EXCEPT !.value = text]
  ELSE d

\* The text the editor shows: the rich editor's paragraphs as lines, or the value.
SurfaceText(d) ==
  IF FindEditor(d) = "prosemirror" THEN Join(d.paras, <<"nl">>)
  ELSE IF FindEditor(d) = "textarea" THEN d.value
  ELSE <<>>

\* The document when the user has typed draft t into the editor in use.
WithDraft(d, t) ==
  IF FindEditor(d) = "prosemirror" THEN [d EXCEPT !.paras = SplitLines(t)]
  ELSE IF FindEditor(d) = "textarea" THEN [d EXCEPT !.value = t]
  ELSE d

\* ensureEnterWiring(), editor part: mark the editor found (the document-level
\* listeners are registered once, at start-up)
EnsureEnterWiring(d) ==
  IF FindEditor(d) = "prosemirror" THEN [d EXCEPT !.pmWired = TRUE]
  ELSE IF FindEditor(d) = "textarea" THEN [d EXCEPT !.taWired = TRUE]
  ELSE d

\* The editor-level keydown listener is on the editor in use.
EditorWired(d) ==
  \/ FindEditor(d) = "prosemirror" /\ d.pmWired
  \/ FindEditor(d) = "textarea" /\ d.taWired

NewDom(l) ==
  [pm |-> l.pm, paras |-> EmptyParas, pmWired |-> FALSE,
   ta |-> l.ta, value |-> <<>>, taWired |-> FALSE,
   composer |-> l.composer, inComposer |-> l.inComposer, sendButton |-> l.sendButton,
   submitGuard |-> FALSE]

(***************************************************************************)
(* The injected controls.                                                  *)
(*   boostPlace  where the Boost button is: "send" in the send button's    *)
(*               parent, "trailing" in the trailing container, "detached"  *)
(*               not in the document                                       *)
(*   boostBefore the Boost button is the send button's previous sibling    *)
(*   hostIn      where modeButtonsHost is: "slot" in the header container  *)
(*               ensureModeButtons resolves, "elsewhere" under another     *)
(*               parent, "none" not in the document                        *)
(*   strays      other .promptbooster-modes elements in the document       *)
(*   sig         the host's data-sig attribute                             *)
(*   rendered    the mode buttons in the host: the id their click handler  *)
(*               holds and the type their icon and data-type show          *)
(* The trailing container and the header container are parts of the        *)
(* composer form; the send button has a parent of its own.                 *)
(***************************************************************************)
NoSig == [ids |-> <<>>, activeId |-> "no-sig"]

NoControls ==
  [boostPlace |-> "detached", boostBefore |-> FALSE,
   hostIn |-> "none", strays |-> 0, sig |-> NoSig, rendered |-> <<>>]

\* settings?.activeItemId || null
ActiveIdOf(settings) ==
  IF "activeItemId" \in DOMAIN settings THEN settings.activeItemId ELSE NoId

\* items.slice(0, 3)
TopThree(items) == SubSeq(items, 1, IF Len(items) < 3 THEN Len(items) ELSE 3)

\* nextSig: JSON.stringify({ ids: buttons.map(b => b.id), activeId })
NextSig(settings) ==
  [ids |-> [k \in 1..Len(TopThree(settings.items)) |-> TopThree(settings.items)[k].id],
   activeId |-> ActiveIdOf(settings)]

\* A variant of renderModeButtons that builds the buttons on every call
NeverSkips(u, settings) == FALSE

\* currentSig === nextSig && host.children.length > 0
SkipsRender(u, settings) == u.sig = NextSig(settings)

\* renderModeButtons(host)
RenderModeButtons(u, settings) ==
  IF SkipsRender(u, settings) THEN u
  ELSE [u EXCEPT !.sig = NextSig(settings),
                 !.rendered = [k \in 1..Len(TopThree(settings.items)) |->
                                 [id |-> TopThree(settings.items)[k].id,
                                  type |-> TopThree(settings.items)[k].type]]]

\* ensureModeButtons: the host is created (empty, no data-sig) when there is
\* none in the document, moved when it is under another parent
PlaceHost(u) ==
  IF u.hostIn = "none"
  THEN [u EXCEPT !.hostIn = "slot", !.sig = NoSig, !.rendered = <<>>]
  ELSE [u EXCEPT !.hostIn = "slot"]

\* ensureModeButtons()
EnsureModeButtons(u, d, settings) ==
  IF ~d.composer THEN u
  ELSE RenderModeButtons([PlaceHost(u) EXCEPT !.strays = 0], settings)

\* ensureBoostButton()
EnsureBoostButton(u, d) ==
  IF d.sendButton
  THEN IF u.boostPlace = "send" THEN u
       ELSE [u EXCEPT !.boostPlace = "send", !.boostBefore = TRUE]
  ELSE IF d.composer
  THEN IF u.boostPlace = "trailing" THEN u
       ELSE [u EXCEPT !.boostPlace = "trailing", !.boostBefore = FALSE]
  ELSE u

\* The MutationObserver callback: ensureBoostButton(); ensureModeButtons();
EnsureControls(u, d, settings) == EnsureModeButtons(EnsureBoostButton(u, d), d, settings)

\* The changes one run of that callback makes to the document: insertBefore or
\* appendChild of the Boost button, prepend of the mode-button host, remove of
\* each stray host, and the rebuild of the host's children.
DomMutations(u, d, settings) ==
  LET boost == IF EnsureBoostButton(u, d) # u THEN 1 ELSE 0
      host == IF d.composer /\ u.hostIn # "slot" THEN 1 ELSE 0
      removed == IF d.composer THEN u.strays ELSE 0
      render == IF d.composer /\ ~SkipsRender(PlaceHost(u), settings) THEN 1 ELSE 0
  IN boost + host + removed + render

(***************************************************************************)
(* Rewrite requests.  Every Boost click and every intercepted Alt+Enter    *)
(* appends one record to jobs: the values its closures captured            *)
(* (originalPrompt, rule), where it stands (phase), and a log of what it   *)
(* did: the texts it wrote and what the editor showed after the last write *)
(* (wrote, surface), the records it pushed (pushed), the rank of its       *)
(* setTimeout call among all such calls (timerNo), the effect of each      *)
(* sendPrompt it ran (sent) and the text the editor held then (sentText),  *)
(* the HTTP requests made for it (fetch), its                              *)
(* notice, the button chosen in its review panel (choice), and what        *)
(* isProcessing and currentSettings.previewBeforeSend were when the        *)
(* request was made (busyAtStart, previewAtStart), and the draft its last  *)
(* write replaced (draftAtWrite).                                          *)
(*   phase: "ignored"   the handler returned at its busy guard             *)
(*          "rejected"  it returned with a notice before any effect        *)
(*          "sent"      BOOST_PROMPT is on its way to the service worker   *)
(*          "fetching"  the service worker has issued the HTTP request     *)
(*          "replied"   sendResponse was called (or the channel failed)    *)
(*          "preview"   the review panel shows the result                  *)
(*          "timer"     sendPrompt is scheduled                            *)
(*          "done"      sendPrompt has run                                 *)
(*          "applied"   written and recorded, with no send scheduled       *)
(*          "failed"    ended with a notice                                *)
(*          "abandoned" its review panel was removed without a choice      *)
(***************************************************************************)
NoResponse == [kind |-> "none", error |-> "", text |-> <<>>]

NoPreview == [job |-> 0, optimized |-> <<>>, hookButton |-> FALSE,
              hookEditor |-> FALSE, collapsing |-> FALSE]

NoSave == [pending |-> FALSE]

NewJob(via, item, originalPrompt, rule, phase, notice) ==
  [via |-> via, item |-> item.id, type |-> item.type,
   originalPrompt |-> originalPrompt, rule |-> rule,
   phase |-> phase, clearBusy |-> FALSE, response |-> NoResponse,
   busyAtStart |-> isProcessing, previewAtStart |-> currentSettings.previewBeforeSend,
   choice |-> "none",
   wrote |-> <<>>, surface |-> <<>>, pushed |-> <<>>, timerNo |-> 0,
   sent |-> <<>>, sentText |-> <<>>, fetch |-> <<>>, draftAtWrite |-> <<>>,
   notice |-> notice]

JobIds == 1..Len(jobs)

\* The text a handler composes for an Append template:
\* originalPrompt ? `${originalPrompt}\n${rule}` : rule
\* A variant that joins with a newline even when the draft is empty
AppendAlways(originalPrompt, rule) == originalPrompt \o <<"nl">> \o rule

\* A variant of the service worker that does not test the prompt
NeverEmpty(originalPrompt) == FALSE

AppendText(originalPrompt, rule) ==
  IF originalPrompt # <<>> THEN originalPrompt \o <<"nl">> \o rule ELSE rule

\* A variant of the push that reads the draft again for `original`
PushDraft(original, optimized, j) ==
  Append(pendingHistory, [original |-> ReadPrompt(dom), optimized |-> optimized, job |-> j])

\* pendingHistory.push({ original, optimized })  (job: which request pushed it)
PushHistory(original, optimized, j) ==
  Append(pendingHistory, [original |-> original, optimized |-> optimized, job |-> j])

\* A job that has written text, pushed { original, optimized: text } and
\* scheduled sendPrompt.
Written(job, text, d, clearBusy) ==
  [job EXCEPT !.phase = "timer", !.clearBusy = clearBusy,
              !.wrote = Append(@, text), !.surface = SurfaceText(d),
              !.draftAtWrite = ReadPrompt(dom),
              !.timerNo = 1 + Cardinality({k \in JobIds : jobs[k].wrote # <<>>}),
              !.pushed = Append(@, [original |-> job.originalPrompt, optimized |-> text])]

Failed(job, notice) == [job EXCEPT !.phase = "failed", !.notice = notice]

\* removeExistingPreview(): the job whose panel is removed without a choice
DropPreview(js) ==
  IF preview.job = 0 THEN js
  ELSE [js EXCEPT ![preview.job].phase = "abandoned"]

(***************************************************************************)
(* Start-up: init() has run and loadSettings() has returned.               *)
(***************************************************************************)
Init ==
  /\ \E f \in BaseForms, a \in ItemIds \cup {NoId} :
       /\ stored = MergeSettings(MergeSettings(DEFAULT_SETTINGS, f), [activeItemId |-> a])
  /\ currentSettings = stored
  /\ notify = FALSE
  /\ pendingSave = NoSave
  /\ isProcessing = FALSE
  /\ \E l \in Layouts, t \in Drafts :
       dom = EnsureEnterWiring(WithDraft(NewDom(l), t))
  /\ pendingHistory = <<>>
  /\ jobs = <<>>
  /\ preview = NoPreview
  /\ envCount = 0
  /\ bubbles = <<>>
  /\ optState = stored
  /\ nativeSends = <<>>
  /\ ui = EnsureControls(NoControls, dom, currentSettings)

(***************************************************************************)
(* onBoostClick                                                            *)
(***************************************************************************)
\* if (isProcessing) return;
BoostBusy == isProcessing

OnBoostClick ==
  /\ MoreEvents
  /\ ui.boostPlace # "detached"
  /\ LET active == GetActiveItem
         originalPrompt == ReadPrompt(dom)
         rule == Trim(active.content)
         j == Len(jobs) + 1
         finalText == AppendText(originalPrompt, rule)
         job == NewJob("click", active, originalPrompt, rule, "sent", "")
     IN IF BoostBusy
        THEN /\ jobs' = Append(jobs, [job EXCEPT !.phase = "ignored"])
             /\ UNCHANGED <<isProcessing, dom, pendingHistory>>
        ELSE IF active = NoItem
        THEN /\ jobs' = Append(jobs, [job EXCEPT !.phase = "rejected",
                                        !.notice = "Please select a mode before clicking Boost."])
             /\ UNCHANGED <<isProcessing, dom, pendingHistory>>
        ELSE IF active.type = "append"
        THEN IF rule = <<>>
             THEN /\ jobs' = Append(jobs, [job EXCEPT !.phase = "rejected",
                                             !.notice = "Selected Append item is empty."])
                  /\ UNCHANGED <<isProcessing, dom, pendingHistory>>
             ELSE IF ~WriteOk(dom)
             THEN /\ jobs' = Append(jobs, Failed(job, "Unable to update the chat input field."))
                  /\ isProcessing' = FALSE
                  /\ UNCHANGED <<dom, pendingHistory>>
             ELSE /\ dom' = WritePrompt(dom, finalText)
                  /\ pendingHistory' = PushHistory(originalPrompt, finalText, j)
                  /\ jobs' = Append(jobs, Written(job, finalText, dom', TRUE))
                  /\ isProcessing' = TRUE
        ELSE /\ isProcessing' = TRUE
             /\ jobs' = Append(jobs, job)
             /\ UNCHANGED <<dom, pendingHistory>>
  /\ UNCHANGED <<ui, nativeSends, optState, bubbles, stored, currentSettings, notify, pendingSave, preview, envCount>>

(***************************************************************************)
(* ensureEnterWiring: the Alt+Enter handlers.  An Alt+Enter keydown whose  *)
(* target is the editor ("editor"), another element inside the composer    *)
(* form ("composer") or an element outside it ("page") reaches             *)
(* globalHandler on window first; when that returns                        *)
(* without stopping the event, the same function runs again on document    *)
(* and returns the same way, and then the editor's own listener runs, if   *)
(* the target is a wired editor.  Without an active template every         *)
(* handler returns at once.                                                *)
(***************************************************************************)
\* The review panel's listeners on the send button and the editor
\* (onNativeClick, onEditorEnter) start collapseAndRemove.
CollapseOn(effect) ==
  IF preview.job # 0 /\ ( (effect = "click" /\ preview.hookButton)
                          \/ (effect = "keydown" /\ preview.hookEditor) )
  THEN [preview EXCEPT !.collapsing = TRUE]
  ELSE preview

\* composer && !composer.contains(e.target): globalHandler lets the event pass
GlobalPasses(target) ==
  dom.composer /\ ~(target = "composer" \/ (target = "editor" /\ dom.inComposer))

\* composer.addEventListener('submit', cancel, { capture: true, once: true })
GuardSubmit(d) == IF d.composer THEN [d EXCEPT !.submitGuard = TRUE] ELSE d

\* globalHandler's text: the Append text, else the template body itself
GlobalFinalText(active, originalPrompt, content) ==
  IF active.type = "append" THEN AppendText(originalPrompt, content) ELSE content

\* A variant of the handlers' first test that takes every Enter
AnyEnter(altKey) == TRUE

\* if (e.key !== 'Enter' || !e.altKey || e.isComposing) return;
IsAltEnter(altKey) == altKey

\* A variant of the interception that lets the event travel on
LetsPropagate == FALSE

\* e.stopImmediatePropagation(); e.stopPropagation(): no later listener, on
\* window, document or the editor, sees an event globalHandler has taken
StopsPropagation == TRUE

\* The listeners whose body runs (past the tests that return) for one
\* Alt+Enter keydown on target, in the order the event reaches them:
\* globalHandler on window, globalHandler on document, the editor's handler
HandlersRun(target) ==
  LET taken == ~GlobalPasses(target)
      stopped == taken /\ StopsPropagation
  IN IF GetActiveItem = NoItem THEN <<>>
     ELSE (IF taken THEN <<"window">> ELSE <<>>)
          \o (IF taken /\ ~stopped THEN <<"document">> ELSE <<>>)
          \o (IF target = "editor" /\ EditorWired(dom) /\ ~stopped
              THEN <<"editor">> ELSE <<>>)

\* globalHandler from preventDefault on
GlobalHandler(target) ==
  /\ LET active == GetActiveItem
         originalPrompt == ReadPrompt(dom)
         content == Trim(active.content)
         j == Len(jobs) + 1
         finalText == GlobalFinalText(active, originalPrompt, content)
         job == NewJob("global", active, originalPrompt, content, "sent", "")
     IN IF active.type = "append" /\ content = <<>>
        THEN /\ jobs' = Append(jobs, [job EXCEPT !.phase = "rejected",
                                        !.notice = "Selected Append item is empty."])
             /\ UNCHANGED <<dom, pendingHistory>>
        ELSE IF ~WriteOk(dom)
        THEN /\ jobs' = Append(jobs, Failed(job, "Unable to update the chat input field."))
             /\ UNCHANGED <<dom, pendingHistory>>
        ELSE /\ dom' = GuardSubmit(WritePrompt(dom, finalText))
             /\ pendingHistory' = PushHistory(originalPrompt, finalText, j)
             /\ jobs' = Append(jobs, Written(job, finalText, dom', FALSE))

AltEnterGlobal(target) ==
  /\ MoreEvents
  /\ target = "editor" => FindEditor(dom) # "none"
  /\ target = "composer" => dom.composer
  /\ IsAltEnter(TRUE)
  /\ GetActiveItem # NoItem
  /\ HandlersRun(target) # <<>>
  /\ Head(HandlersRun(target)) = "window"
  /\ GlobalHandler(target)
  /\ UNCHANGED <<ui, nativeSends, optState, bubbles, stored, currentSettings, notify, pendingSave, isProcessing, preview, envCount>>

\* The editor element's own keydown listener (handler).
AltEnterEditor ==
  /\ MoreEvents
  /\ EditorWired(dom)
  /\ IsAltEnter(TRUE)
  /\ GetActiveItem # NoItem
  /\ HandlersRun("editor") # <<>>
  /\ Head(HandlersRun("editor")) = "editor"
  /\ LET active == GetActiveItem
         originalPrompt == ReadPrompt(dom)
         content == Trim(active.content)
         j == Len(jobs) + 1
         finalText == AppendText(originalPrompt, content)
         job == NewJob("editor", active, originalPrompt, content, "sent", "")
     IN IF active.type = "append"
        THEN IF content = <<>>
             THEN /\ jobs' = Append(jobs, [job EXCEPT !.phase = "rejected",
                                             !.notice = "Selected Append item is empty."])
                  /\ UNCHANGED <<dom, pendingHistory, isProcessing>>
             ELSE IF ~WriteOk(dom)
             THEN /\ jobs' = Append(jobs, Failed(job, "Unable to update the chat input field."))
                  /\ UNCHANGED <<dom, pendingHistory, isProcessing>>
             ELSE /\ dom' = GuardSubmit(WritePrompt(dom, finalText))
                  /\ pendingHistory' = PushHistory(originalPrompt, finalText, j)
                  /\ jobs' = Append(jobs, Written(job, finalText, dom', FALSE))
                  /\ UNCHANGED isProcessing
        ELSE /\ isProcessing' = TRUE
             /\ jobs' = Append(jobs, job)
             /\ UNCHANGED <<dom, pendingHistory>>
  /\ preview' = CollapseOn("keydown")   \* onEditorEnter is on the same element
  /\ UNCHANGED <<ui, nativeSends, optState, bubbles, stored, currentSettings, notify, pendingSave, envCount>>

(***************************************************************************)
(* The service worker: onMessage BOOST_PROMPT, handleBoostRequest, callLLM *)
(***************************************************************************)
BaseInstruction == <<"b">>

\* buildInstruction({ originalPrompt }): always the same base instruction
BuildInstruction(originalPrompt) == BaseInstruction

\* buildChatMessages({ originalPrompt, rule })
BuildChatMessages(originalPrompt, rule) ==
  << [role |-> "system", content |-> BuildInstruction(originalPrompt)],
     [role |-> "user", content |-> originalPrompt] >>

\* handleBoostRequest: !originalPrompt || !originalPrompt.trim()
PromptIsEmpty(originalPrompt) == Trim(originalPrompt) = <<>>

\* callLLM: throw new Error('Missing API key. ...')
MissingKey == "Missing API key. Add it from the PromptBooster options page."

\* A variant of callLLM that goes to fetch without its checks
NoConfigCheck(settings) == "ok"

\* callLLM's checks before fetch
ConfigCheck(settings) ==
  IF settings.apiKey = "" THEN MissingKey
  ELSE IF settings.apiBaseUrl = "" THEN "Missing API base URL."
  ELSE "ok"

ErrorResponse(msg) == [kind |-> "error", error |-> msg, text |-> <<>>]

\* The message arrives; handleBoostRequest runs up to the fetch call.
SwHandle(i) ==
  /\ i \in JobIds
  /\ jobs[i].phase = "sent"
  /\ LET job == jobs[i]
         settings == GetSettings
         messages == BuildChatMessages(job.originalPrompt, job.rule)
     IN IF PromptIsEmpty(job.originalPrompt)
        THEN jobs' = [jobs EXCEPT ![i].phase = "replied",
                                  ![i].response = ErrorResponse("Prompt is empty.")]
        ELSE IF ConfigCheck(settings) # "ok"
        THEN jobs' = [jobs EXCEPT ![i].phase = "replied",
                                  ![i].response = ErrorResponse(ConfigCheck(settings))]
        ELSE jobs' = [jobs EXCEPT ![i].phase = "fetching",
                                  ![i].fetch = Append(@, [apiKey |-> settings.apiKey,
                                                          apiBaseUrl |-> settings.apiBaseUrl,
                                                          model |-> settings.model,
                                                          messages |-> messages])]
  /\ UNCHANGED <<ui, nativeSends, optState, bubbles, stored, currentSettings, notify, pendingSave, isProcessing, dom,
                 pendingHistory, preview, envCount>>

\* What the text-generation service can answer: no answer at all, a non-2xx
\* status, a body without choices[0].message.content, or a content string.
RawContents == { <<"sp">>, <<"r">>, <<"sp", "r", "nl", "lt">> }

FetchOutcomes ==
  {[kind |-> k, content |-> <<>>] : k \in {"network-error", "http-error", "malformed"}}
    \cup {[kind |-> "content", content |-> c] : c \in RawContents}

\* callLLM after fetch: the trimmed content, or an error
LLMResult(outcome) ==
  IF outcome.kind = "network-error" THEN ErrorResponse("Failed to fetch")
  ELSE IF outcome.kind = "http-error" THEN ErrorResponse("LLM request failed")
  ELSE IF outcome.kind = "malformed"
  THEN ErrorResponse("The LLM response did not contain a usable message.")
  ELSE IF Trim(outcome.content) = <<>>
  THEN ErrorResponse("The LLM response did not contain a usable message.")
  ELSE [kind |-> "ok", error |-> "", text |-> Trim(outcome.content)]

SwFetchDone(i, outcome) ==
  /\ i \in JobIds
  /\ jobs[i].phase = "fetching"
  /\ jobs' = [jobs EXCEPT ![i].phase = "replied", ![i].response = LLMResult(outcome)]
  /\ UNCHANGED <<ui, nativeSends, optState, bubbles, stored, currentSettings, notify, pendingSave, isProcessing, dom,
                 pendingHistory, preview, envCount>>

\* The message channel fails (the worker is gone): the callback will find
\* chrome.runtime.lastError set.
MessagingError(i) ==
  /\ i \in JobIds
  /\ jobs[i].phase \in {"sent", "fetching"}
  /\ jobs' = [jobs EXCEPT ![i].phase = "replied",
                          ![i].response = [kind |-> "lastError", error |-> "", text |-> <<>>]]
  /\ UNCHANGED <<ui, nativeSends, optState, bubbles, stored, currentSettings, notify, pendingSave, isProcessing, dom,
                 pendingHistory, preview, envCount>>

(***************************************************************************)
(* The response callback of chrome.runtime.sendMessage (onBoostClick and   *)
(* the editor's Alt+Enter handler share its shape), showPreview,           *)
(* applyOptimizedPrompt and the review panel's two buttons.                *)
(***************************************************************************)
\* A variant of the callback that takes every response as a success
AcceptAnyResponse(response) == FALSE

\* A variant of the failure paths without setProcessingState(false)
StillBusy == isProcessing

\* setProcessingState(false) on the callback's failure paths
BusyAfterFailure == FALSE

\* chrome.runtime.lastError || !response?.ok
ResponseFailed(response) == response.kind # "ok"

ResponseNotice(response) ==
  IF response.kind = "lastError" THEN "Prompt boosting failed to start. Try again in a moment."
  ELSE response.error

\* applyOptimizedPrompt({ originalPrompt, optimizedPrompt, autoSend }) for job i,
\* with js the jobs after removeExistingPreview
ApplyOptimizedPrompt(i, js0, optimizedPrompt, autoSend, choice) ==
  /\ isProcessing' = FALSE
  /\ LET js == [js0 EXCEPT ![i].choice = choice] IN
     IF ~WriteOk(dom)
     THEN /\ jobs' = [js EXCEPT ![i] = Failed(@, "Unable to update the chat input field.")]
          /\ UNCHANGED <<dom, pendingHistory>>
     ELSE /\ dom' = WritePrompt(dom, optimizedPrompt)
          /\ pendingHistory' = PushHistory(js[i].originalPrompt, optimizedPrompt, i)
          /\ jobs' = [js EXCEPT ![i] = [Written(@, optimizedPrompt, dom', FALSE)
                                          EXCEPT !.phase = IF autoSend THEN "timer" ELSE "applied"]]

\* showPreview({ originalPrompt, optimizedPrompt, sendAfterChoice: true }) for job i
ShowPreview(i, optimizedPrompt) ==
  LET js == DropPreview(jobs)
  IN IF ~dom.composer
     THEN /\ ApplyOptimizedPrompt(i, js, optimizedPrompt, FALSE, "none")
          /\ preview' = NoPreview
     ELSE /\ preview' = [job |-> i, optimized |-> optimizedPrompt,
                         hookButton |-> dom.sendButton,
                         hookEditor |-> FindEditor(dom) # "none",
                         collapsing |-> FALSE]
          /\ jobs' = [js EXCEPT ![i].phase = "preview"]
          /\ isProcessing' = FALSE
          /\ UNCHANGED <<dom, pendingHistory>>

OnResponse(i) ==
  /\ i \in JobIds
  /\ jobs[i].phase = "replied"
  /\ LET job == jobs[i]
         response == job.response
         optimizedPrompt == response.text
     IN IF ResponseFailed(response)
        THEN /\ jobs' = [jobs EXCEPT ![i] = Failed(@, ResponseNotice(response))]
             /\ isProcessing' = BusyAfterFailure
             /\ UNCHANGED <<dom, pendingHistory, preview>>
        ELSE IF currentSettings.previewBeforeSend
        THEN ShowPreview(i, optimizedPrompt)
        ELSE IF ~WriteOk(dom)
        THEN /\ jobs' = [jobs EXCEPT ![i] = Failed(@, "Unable to update the chat input field.")]
             /\ isProcessing' = BusyAfterFailure
             /\ UNCHANGED <<dom, pendingHistory, preview>>
        ELSE /\ dom' = IF job.via = "editor"
                       THEN GuardSubmit(WritePrompt(dom, optimizedPrompt))
                       ELSE WritePrompt(dom, optimizedPrompt)
             /\ pendingHistory' = PushHistory(job.originalPrompt, optimizedPrompt, i)
             /\ jobs' = [jobs EXCEPT ![i] = Written(@, optimizedPrompt, dom', TRUE)]
             /\ UNCHANGED <<isProcessing, preview>>
  /\ UNCHANGED <<ui, nativeSends, optState, bubbles, stored, currentSettings, notify, pendingSave, envCount>>

\* A variant of Use Original that reads the editor again
UseOriginalRereads(job) == ReadPrompt(dom)

\* Use Original: optimizedPrompt: originalPrompt
UseOriginalText(job) == job.originalPrompt

PreviewUseOriginal ==
  /\ preview.job # 0
  /\ ApplyOptimizedPrompt(preview.job, jobs, UseOriginalText(jobs[preview.job]), TRUE,
                          "original")
  /\ preview' = NoPreview
  /\ UNCHANGED <<ui, nativeSends, optState, bubbles, stored, currentSettings, notify, pendingSave, envCount>>

\* What the user can leave in the panel's editable box (innerText) besides
\* the suggestion itself.
Edits == { <<"sp">>, <<"e", "sp">> }

\* Use Boosted: edited || optimizedPrompt, edited being the trimmed box text
UseBoostedText(boxText, optimizedPrompt) ==
  IF Trim(boxText) # <<>> THEN Trim(boxText) ELSE optimizedPrompt

PreviewUseBoosted(boxText) ==
  /\ preview.job # 0
  /\ ApplyOptimizedPrompt(preview.job, jobs, UseBoostedText(boxText, preview.optimized), TRUE,
                          "boosted")
  /\ preview' = NoPreview
  /\ UNCHANGED <<ui, nativeSends, optState, bubbles, stored, currentSettings, notify, pendingSave, envCount>>

(***************************************************************************)
(* sendPrompt, run by the timer a handler scheduled.                       *)
(***************************************************************************)
\* A variant of sendPrompt that tries the editor before the send button
KeydownFirst(d) ==
  IF FindEditor(d) # "none" THEN "keydown" ELSE IF d.sendButton THEN "click" ELSE "none"

\* sendPrompt(): click the send button, else an Enter keydown on the editor
SendEffect(d) ==
  IF d.sendButton THEN "click" ELSE IF FindEditor(d) # "none" THEN "keydown" ELSE "none"

\* A variant with setInterval in place of setTimeout
RepeatingTimer == "timer"

\* setTimeout: the timer runs sendPrompt once
PhaseAfterTimer == "done"

\* The delays of the three kinds of setTimeout, in milliseconds
BoostDelay == 80
ApplyDelay == 100
AltEnterDelay == 120

Delay(job) ==
  IF job.choice # "none" THEN ApplyDelay
  ELSE IF job.via = "click" THEN BoostDelay
  ELSE AltEnterDelay

\* A timer set earlier with a delay no longer than this one's fires first.
TimerDue(i) ==
  \A k \in JobIds :
    (jobs[k].phase = "timer" /\ jobs[k].timerNo < jobs[i].timerNo)
    => Delay(jobs[k]) > Delay(jobs[i])

TimerFire(i) ==
  /\ i \in JobIds
  /\ jobs[i].phase = "timer"
  /\ TimerDue(i)
  /\ LET effect == SendEffect(dom)
     IN /\ jobs' = [jobs EXCEPT ![i].phase = PhaseAfterTimer, ![i].sent = Append(@, effect),
                                ![i].sentText = SurfaceText(dom)]
        /\ preview' = CollapseOn(effect)
        /\ dom' = IF effect = "click" THEN [dom EXCEPT !.submitGuard = FALSE] ELSE dom
  /\ isProcessing' = IF jobs[i].clearBusy THEN FALSE ELSE isProcessing
  /\ UNCHANGED <<ui, nativeSends, optState, bubbles, stored, currentSettings, notify, pendingSave, pendingHistory, envCount>>

\* collapseAndRemove's timer: el.remove()
PreviewCollapsed ==
  /\ preview.job # 0
  /\ preview.collapsing
  /\ jobs' = DropPreview(jobs)
  /\ preview' = NoPreview
  /\ UNCHANGED <<ui, nativeSends, optState, bubbles, stored, currentSettings, notify, pendingSave, isProcessing, dom,
                 pendingHistory, envCount>>

(***************************************************************************)
(* The user's own sends.  The content script has no listener on the send  *)
(* button but the review panel's; a plain Enter in the editor reaches the  *)
(* keydown handlers, which return at their first test, and the panel's     *)
(* onEditorEnter.  A native send is logged as [by, text, cancelled]: how   *)
(* it was made, the text the editor held, and whether a lingering submit   *)
(* guard cancelled the form's submit event.                                *)
(***************************************************************************)
NativeClick ==
  /\ MoreEvents
  /\ envCount' = envCount + 1
  /\ dom.sendButton
  /\ nativeSends' = Append(nativeSends, [by |-> "click", text |-> SurfaceText(dom),
                                         cancelled |-> dom.submitGuard])
  /\ preview' = CollapseOn("click")
  /\ dom' = [dom EXCEPT !.submitGuard = FALSE]
  /\ UNCHANGED <<ui, optState, bubbles, stored, currentSettings, notify, pendingSave,
                 isProcessing, pendingHistory, jobs>>

PlainEnter ==
  /\ MoreEvents
  /\ envCount' = envCount + 1
  /\ FindEditor(dom) # "none"
  /\ nativeSends' = Append(nativeSends, [by |-> "enter", text |-> SurfaceText(dom),
                                         cancelled |-> FALSE])
  /\ IF IsAltEnter(FALSE) /\ GetActiveItem # NoItem /\ ~GlobalPasses("editor")
     THEN GlobalHandler("editor") /\ UNCHANGED preview
     ELSE /\ preview' = CollapseOn("keydown")
          /\ UNCHANGED <<dom, pendingHistory, jobs>>
  /\ UNCHANGED <<ui, optState, bubbles, stored, currentSettings, notify, pendingSave,
                 isProcessing>>

(***************************************************************************)
(* setupMessageObserver: the host page renders a user message and the      *)
(* MutationObserver callback runs annotateIfUserMessage on the new         *)
(* element.  A bubble is [text, job, notes, annotated, rec]: the message   *)
(* text, the request whose sendPrompt produced it, the                     *)
(* .promptbooster-original-note elements appended to it, its membership in *)
(* annotatedBubbles, and the request whose record annotated it (0: none);  *)
(* checks counts the runs of annotateIfUserMessage on it that got past the *)
(* annotatedBubbles test, took lists the requests whose records those runs *)
(* removed from pendingHistory.                                            *)
(***************************************************************************)
\* String.prototype.toLowerCase on one character
ToLowerCase(c) == IF c = "A" THEN "a" ELSE c

\* replace(/\s+/g, ' ')
RECURSIVE CollapseSpaces(_)
CollapseSpaces(s) ==
  IF s = <<>> THEN <<>>
  ELSE IF IsSpace(Head(s)) THEN <<"sp">> \o CollapseSpaces(TrimLeft(Tail(s)))
  ELSE <<Head(s)>> \o CollapseSpaces(Tail(s))

\* normalizeText(text)
NormalizeText(text) ==
  LET t == Trim(CollapseSpaces(text))
  IN [i \in 1..Len(t) |-> ToLowerCase(t[i])]

\* String.prototype.includes
Includes(s, t) ==
  \E k \in 0..Len(s) : k + Len(t) <= Len(s) /\ SubSeq(s, k + 1, k + Len(t)) = t

\* node.textContent of a message element: its text, then its notes
NodeText(b) ==
  b.text \o Join([k \in 1..Len(b.notes) |-> <<"o">> \o b.notes[k]], <<>>)

NewBubble(text, j) ==
  [text |-> text, job |-> j, notes |-> <<>>, annotated |-> FALSE, rec |-> 0,
   checks |-> 0, took |-> <<>>]

\* A variant that takes the newest record
LastRecord(q) == q[Len(q)]

\* const next = pendingHistory[0]
NextRecord(q) == Head(q)

\* A variant of the membership test that never finds the element
NeverAnnotated(b) == FALSE

\* annotatedBubbles.has(node)
IsAnnotated(b) == b.annotated

\* annotateIfUserMessage(node) for a user message element: the queue and the
\* element afterwards
AnnotateIfUserMessage(b) ==
  LET normalizedText == NormalizeText(NodeText(b))
      seen == [b EXCEPT !.checks = @ + 1]
      same == [queue |-> pendingHistory, bubble |-> seen]
  IN IF IsAnnotated(b) THEN [queue |-> pendingHistory, bubble |-> b]
     ELSE IF normalizedText = <<>> \/ pendingHistory = <<>> THEN same
     ELSE LET next == NextRecord(pendingHistory)
              normalizedOptimized == NormalizeText(next.optimized)
          IN IF normalizedOptimized = <<>>
             THEN [queue |-> Tail(pendingHistory),
                   bubble |-> [seen EXCEPT !.rec = next.job,
                                           !.took = Append(@, next.job)]]
             ELSE IF ~Includes(normalizedText, normalizedOptimized) THEN same
             ELSE [queue |-> Tail(pendingHistory),
                   bubble |-> [seen EXCEPT !.notes = Append(@, next.original),
                                           !.annotated = TRUE,
                                           !.rec = next.job,
                                           !.took = Append(@, next.job)]]

\* The host page accepted the send of request i and renders the message; the
\* observer's callback runs before any other task.
HostRendersMessage(i) ==
  /\ Len(bubbles) < MaxBubbles
  /\ i \in JobIds
  /\ jobs[i].phase = "done"
  /\ jobs[i].sent[Len(jobs[i].sent)] # "none"
  /\ Trim(jobs[i].sentText) # <<>>
  /\ \A k \in 1..Len(bubbles) : bubbles[k].job # i
  /\ LET r == AnnotateIfUserMessage(NewBubble(jobs[i].sentText, i))
     IN /\ bubbles' = Append(bubbles, r.bubble)
        /\ pendingHistory' = r.queue
  /\ UNCHANGED <<ui, nativeSends, optState, stored, currentSettings, notify, pendingSave,
                 isProcessing, dom, jobs, preview, envCount>>

\* The host page takes the message element k out of the document and puts
\* it back (a re-render of the thread under a new wrapper): the observer's
\* callback finds it among the added nodes again.
MaxReports == 2   \* times one element is handled by the observer's callback

HostReinsertsMessage(k) ==
  /\ k \in 1..Len(bubbles)
  /\ bubbles[k].checks < MaxReports
  /\ LET r == AnnotateIfUserMessage(bubbles[k])
     IN /\ bubbles' = [bubbles EXCEPT ![k] = r.bubble]
        /\ pendingHistory' = r.queue
  /\ bubbles' # bubbles
  /\ UNCHANGED <<ui, nativeSends, optState, stored, currentSettings, notify, pendingSave,
                 isProcessing, dom, jobs, preview, envCount>>

(***************************************************************************)
(* Settings traffic: the header buttons (setActiveItemId -> saveSettings), *)
(* the options page's base form, and chrome.storage.onChanged.             *)
(***************************************************************************)
\* renderModeButtons: the first three templates are the header buttons
ModeButtons == SubSeq(currentSettings.items, 1,
                      IF Len(currentSettings.items) < 3 THEN Len(currentSettings.items) ELSE 3)

\* onModeButtonClick(item): the id to make active
ToggledId(item) == IF GetActiveItemId = item.id THEN NoId ELSE item.id

\* setActiveItemId(id), up to the storage write inside saveSettings
SetActiveItemId(id) ==
  /\ ~pendingSave.pending
  /\ pendingSave' = [pending |-> TRUE,
                     next |-> MergeSettings(currentSettings, [activeItemId |-> id])]

\* A click on the n-th mode button, within a session of at most max events
ModeButtonClick(n, max) ==
  /\ Len(jobs) + envCount < max
  /\ envCount' = envCount + 1
  /\ dom.composer
  /\ n \in 1..Len(ModeButtons)
  /\ SetActiveItemId(ToggledId(ModeButtons[n]))
  /\ UNCHANGED <<ui, nativeSends, optState, bubbles, stored, currentSettings, notify, isProcessing, dom, pendingHistory,
                 jobs, preview>>

OnModeButtonClick(n) == ModeButtonClick(n, MaxEvents)

\* The Clear control, rendered while a template is active
OnClearActiveClick ==
  /\ MoreEvents
  /\ envCount' = envCount + 1
  /\ dom.composer
  /\ GetActiveItemId # NoId
  /\ SetActiveItemId(NoId)
  /\ UNCHANGED <<ui, nativeSends, optState, bubbles, stored, currentSettings, notify, isProcessing, dom, pendingHistory,
                 jobs, preview>>

\* saveSettings(next) reads, merges and writes; setActiveItemId takes the result
SaveSettingsDone ==
  /\ pendingSave.pending
  /\ stored' = SaveSettings(pendingSave.next)
  /\ currentSettings' = stored'
  /\ UNCHANGED notify   \* the change event carries the value just assigned
  /\ pendingSave' = NoSave
  /\ ui' = EnsureModeButtons(ui, dom, currentSettings')
  /\ UNCHANGED <<nativeSends, optState, bubbles, isProcessing, dom, pendingHistory, jobs, preview, envCount>>

\* The options page saves its base form (wireBaseForm) with state.items.
OptionsSave(f) ==
  /\ MoreEvents
  /\ envCount' = envCount + 1
  /\ f \in BaseForms
  /\ stored' = SaveSettings(MergeSettings(f, [items |-> optState.items]))
  /\ stored' # stored
  /\ optState' = stored'
  /\ notify' = TRUE
  /\ UNCHANGED <<ui, nativeSends, bubbles, currentSettings, pendingSave, isProcessing, dom, pendingHistory,
                 jobs, preview>>

\* Array.prototype.filter(i => i.id !== id)
RECURSIVE WithoutId(_, _)
WithoutId(items, id) ==
  IF items = <<>> THEN <<>>
  ELSE IF Head(items).id = id THEN WithoutId(Tail(items), id)
  ELSE <<Head(items)>> \o WithoutId(Tail(items), id)

\* deleteItem(id): { ...state.settings, items: state.items without id }
DeleteUpdate(settings, id) == [settings EXCEPT !.items = WithoutId(@, id)]

\* The options page deletes a template (deleteItem, confirmed by the user).
OptionsDeleteItem(id) ==
  /\ MoreEvents
  /\ envCount' = envCount + 1
  /\ \E k \in 1..Len(optState.items) : optState.items[k].id = id
  /\ stored' = SaveSettings(DeleteUpdate(optState, id))
  /\ optState' = stored'
  /\ notify' = TRUE
  /\ UNCHANGED <<ui, nativeSends, bubbles, currentSettings, pendingSave, isProcessing, dom, pendingHistory,
                 jobs, preview>>

(***************************************************************************)
(* The options page, My Prompts: add and edit (openPromptModal's save      *)
(* handler), drag and drop (reorderItems).  A template's name is left out  *)
(* of the items modelled; every template added has the same name.          *)
(***************************************************************************)
MaxOps == 3       \* saves the options page makes in a session of its own

MoreOps == envCount < MaxOps

\* What Math.random().toString(36).slice(2, 6) can give
Rands == {"k3x9", "i"}

ItemTypes == {"boosted", "append"}

\* genId(type, name): `${type}-${slug}-${rand}`, for the one name
GenId(type, rand) ==
  IF type = "boosted"
  THEN (IF rand = "k3x9" THEN "boosted-n-k3x9" ELSE "boosted-n-i")
  ELSE (IF rand = "k3x9" THEN "append-n-k3x9" ELSE "append-n-i")

GenIds == {GenId(t, r) : t \in ItemTypes, r \in Rands}

\* The bodies the modal's text box can hold on save (trimmed, not empty)
Bodies == { <<"e">> }

\* state.items.push({ id, type: currentType, name, content })
CreateItem(items, type, content, rand) ==
  Append(items, [id |-> GenId(type, rand), type |-> type, content |-> content])

\* Array.prototype.findIndex(i => i.id === id), counted from 1; 0 for -1
FindIndex(items, id) ==
  LET hits == {i \in 1..Len(items) : items[i].id = id}
  IN IF hits = {} THEN 0 ELSE CHOOSE i \in hits : \A k \in hits : i <= k

\* The edit of the template shown in row `row`:
\* idx = findIndex(i => i.id === item.id); items[idx] = { ...items[idx], type, name, content }
EditItem(items, row, type, content) ==
  LET idx == FindIndex(items, items[row].id)
  IN IF idx = 0 THEN items
     ELSE [items EXCEPT ![idx] = [@ EXCEPT !.type = type, !.content = content]]

\* Array.prototype.splice(at, 0, x), with at counted from 0
InsertAt(items, at, x) ==
  LET n == IF at > Len(items) THEN Len(items) ELSE at
  IN SubSeq(items, 1, n) \o <<x>> \o SubSeq(items, n + 1, Len(items))

\* reorderItems(draggedId, targetId)
ReorderItems(items, draggedId, targetId) ==
  LET fromIdx == FindIndex(items, draggedId)
      toIdx == FindIndex(items, targetId)
      rest == SubSeq(items, 1, fromIdx - 1) \o SubSeq(items, fromIdx + 1, Len(items))
  IN IF fromIdx = 0 \/ toIdx = 0 THEN items
     ELSE InsertAt(rest, toIdx - 1, items[fromIdx])

\* saveSettings({ ...state.settings, items: state.items }) and its result
OptionsPersist(items) ==
  /\ stored' = SaveSettings([optState EXCEPT !.items = items])
  /\ stored' # stored
  /\ optState' = stored'
  /\ notify' = TRUE
  /\ UNCHANGED <<ui, nativeSends, bubbles, currentSettings, pendingSave, isProcessing, dom,
                 pendingHistory, jobs, preview>>

OptionsCreate(type, content, rand) ==
  /\ MoreOps
  /\ envCount' = envCount + 1
  /\ OptionsPersist(CreateItem(optState.items, type, content, rand))

OptionsEdit(row, type, content) ==
  /\ MoreOps
  /\ envCount' = envCount + 1
  /\ row \in 1..Len(optState.items)
  /\ OptionsPersist(EditItem(optState.items, row, type, content))

\* The drop handler: if (!draggedId || draggedId === item.id) return;
OptionsReorder(draggedRow, targetRow) ==
  /\ MoreOps
  /\ envCount' = envCount + 1
  /\ draggedRow \in 1..Len(optState.items)
  /\ targetRow \in 1..Len(optState.items)
  /\ optState.items[draggedRow].id # optState.items[targetRow].id
  /\ OptionsPersist(ReorderItems(optState.items, optState.items[draggedRow].id,
                                 optState.items[targetRow].id))

\* setupSettingsObserver's callback: currentSettings = the merged new value
SettingsChanged ==
  /\ notify
  /\ notify' = FALSE
  /\ currentSettings' = GetSettings
  /\ ui' = EnsureModeButtons(ui, dom, currentSettings')
  /\ UNCHANGED <<nativeSends, optState, bubbles, stored, pendingSave, isProcessing, dom, pendingHistory, jobs, preview, envCount>>

(***************************************************************************)
(* The user and the host page.                                             *)
(***************************************************************************)
UserTypes(t) ==
  /\ MoreEvents
  /\ envCount' = envCount + 1
  /\ t \in Drafts
  /\ FindEditor(dom) # "none"
  /\ dom' = WithDraft(dom, t)
  /\ dom' # dom
  /\ UNCHANGED <<ui, nativeSends, optState, bubbles, stored, currentSettings, notify, pendingSave, isProcessing,
                 pendingHistory, jobs, preview>>

\* The host page re-renders into layout l: an element present before and after
\* is the same element; a new editor is empty and carries no listener; the
\* review panel lives inside the composer form.
\* What a re-render of the page into layout l leaves of the controls: the
\* Boost button goes with the send button's parent or the trailing container
\* it is in, the mode-button host with the composer form.
ControlsAfter(u, d, l) ==
  LET boostGone == \/ u.boostPlace = "send" /\ ~(d.sendButton /\ l.sendButton)
                   \/ u.boostPlace = "trailing" /\ ~(d.composer /\ l.composer)
      hostGone == ~(d.composer /\ l.composer)
  IN [u EXCEPT !.boostPlace = IF boostGone THEN "detached" ELSE @,
               !.boostBefore = IF boostGone THEN FALSE ELSE @,
               !.hostIn = IF hostGone THEN "none" ELSE @,
               !.strays = IF hostGone THEN 0 ELSE @,
               !.sig = IF hostGone THEN NoSig ELSE @,
               !.rendered = IF hostGone THEN <<>> ELSE @]

HostMutate(l) ==
  /\ MoreEvents
  /\ envCount' = envCount + 1
  /\ l \in Layouts
  /\ dom' = [pm |-> l.pm,
             paras |-> IF l.pm /\ dom.pm THEN dom.paras ELSE EmptyParas,
             pmWired |-> l.pm /\ dom.pm /\ dom.pmWired,
             ta |-> l.ta,
             value |-> IF l.ta /\ dom.ta THEN dom.value ELSE <<>>,
             taWired |-> l.ta /\ dom.ta /\ dom.taWired,
             composer |-> l.composer, inComposer |-> l.inComposer,
             sendButton |-> l.sendButton,
             submitGuard |-> l.composer /\ dom.composer /\ dom.submitGuard]
  /\ dom' # dom
  /\ ui' = EnsureControls(ControlsAfter(ui, dom, l), dom', currentSettings)
  /\ IF l.composer
     THEN UNCHANGED <<jobs, preview>>
     ELSE jobs' = DropPreview(jobs) /\ preview' = NoPreview
  /\ UNCHANGED <<nativeSends, optState, bubbles, stored, currentSettings, notify, pendingSave, isProcessing,
                 pendingHistory>>

\* The host page removes the injected controls, moves them (the Boost button
\* to another place among its siblings, the mode-button host under another
\* parent), or shows a copy of the .promptbooster-modes element; the
\* MutationObserver callback runs before any other task.
Touches == {"remove", "relocate", "stray"}

Touched(u, kind) ==
  IF kind = "remove"
  THEN NoControls
  ELSE IF kind = "relocate"
  THEN [u EXCEPT !.boostBefore = FALSE,
                 !.hostIn = IF @ = "slot" THEN "elsewhere" ELSE @]
  ELSE [u EXCEPT !.strays = IF u.hostIn = "none" THEN @ ELSE 1]

HostTouchesControls(kind) ==
  /\ MoreEvents
  /\ envCount' = envCount + 1
  /\ kind \in Touches
  /\ ui' = EnsureControls(Touched(ui, kind), dom, currentSettings)
  /\ UNCHANGED <<nativeSends, optState, bubbles, stored, currentSettings, notify, pendingSave,
                 isProcessing, dom, pendingHistory, jobs, preview>>

\* setupComposerObserver's retry interval: ensureEnterWiring every 300 ms for
\* 10 s.  The end of the interval is a tick that never comes: an editor the page
\* creates late stays without the listener.
RetryTick ==
  /\ dom' = EnsureEnterWiring(dom)
  /\ dom' # dom
  /\ ui' = EnsureControls(ui, dom', currentSettings)
  /\ UNCHANGED <<nativeSends, optState, bubbles, stored, currentSettings, notify, pendingSave, isProcessing,
                 pendingHistory, jobs, preview, envCount>>

(***************************************************************************)
(* The specification.                                                      *)
(***************************************************************************)
AltEnter == \E target \in {"editor", "composer", "page"} : AltEnterGlobal(target)

ServiceWorker == \E i \in JobIds : SwHandle(i)

FetchDone == \E i \in JobIds, o \in FetchOutcomes : SwFetchDone(i, o)

ChannelError == \E i \in JobIds : MessagingError(i)

Response == \E i \in JobIds : OnResponse(i)

UseBoosted == \E b \in Edits \cup {preview.optimized} : PreviewUseBoosted(b)

Timer == \E i \in JobIds : TimerFire(i)

ModeClick == \E n \in 1..3 : OnModeButtonClick(n)

Options == \E f \in BaseForms : OptionsSave(f)

Delete == \E id \in ItemIds \cup GenIds : OptionsDeleteItem(id)

MaxRows == Len(StoredItems) + MaxOps

Create == \E t \in ItemTypes, c \in Bodies, r \in Rands : OptionsCreate(t, c, r)

Edit == \E row \in 1..MaxRows, t \in ItemTypes, c \in Bodies : OptionsEdit(row, t, c)

Reorder == \E d \in 1..MaxRows, t \in 1..MaxRows : OptionsReorder(d, t)

Typing == \E t \in Drafts : UserTypes(t)

Host == \E l \in Layouts : HostMutate(l)

Renders == \E i \in JobIds : HostRendersMessage(i)

Touch == \E kind \in Touches : HostTouchesControls(kind)

Reinserts == \E k \in 1..MaxBubbles : HostReinsertsMessage(k)

Next ==
  \/ OnBoostClick
  \/ AltEnter
  \/ AltEnterEditor
  \/ ServiceWorker
  \/ FetchDone
  \/ ChannelError
  \/ Response
  \/ PreviewUseOriginal
  \/ UseBoosted
  \/ Timer
  \/ PreviewCollapsed
  \/ ModeClick
  \/ OnClearActiveClick
  \/ SaveSettingsDone
  \/ Options
  \/ SettingsChanged
  \/ Typing
  \/ Host
  \/ RetryTick
  \/ Renders
  \/ Delete
  \/ NativeClick
  \/ PlainEnter
  \/ Touch
  \/ Reinserts

Spec == Init /\ [][Next]_vars


\* A session of the options page beside an idle chat page: templates are
\* added, edited, deleted and dragged, the base form is saved, and the
\* content script receives the changes.
OptInit ==
  /\ Init
  /\ stored.apiKey = "" /\ ~stored.previewBeforeSend
  /\ dom.pm /\ dom.ta /\ ReadPrompt(dom) = <<"a">>

OptNext ==
  \/ Create
  \/ Edit
  \/ Reorder
  \/ Delete
  \/ Options
  \/ SettingsChanged

OptionsSpec == OptInit /\ [][OptNext]_vars

\* The settings store on its own: chrome.storage.sync holds any part of a
\* settings object (nothing after a fresh install, some keys after an older
\* version), both pages have loaded it, and the handlers that save run.
StoredKeys == (DOMAIN DEFAULT_SETTINGS) \cup {"activeItemId"}

Restrict(r, K) == [k \in K |-> r[k]]

StoreInit ==
  /\ \E f \in BaseForms, a \in ItemIds \cup {NoId}, K \in SUBSET StoredKeys :
       stored = Restrict(MergeSettings(MergeSettings(DEFAULT_SETTINGS, f),
                                       [activeItemId |-> a]), K)
  /\ currentSettings = GetSettings
  /\ optState = GetSettings
  /\ notify = FALSE
  /\ pendingSave = NoSave
  /\ isProcessing = FALSE
  /\ \E l \in Layouts : l.composer /\ l.pm /\ dom = EnsureEnterWiring(NewDom(l))
  /\ pendingHistory = <<>>
  /\ jobs = <<>>
  /\ preview = NoPreview
  /\ envCount = 0
  /\ bubbles = <<>>
  /\ nativeSends = <<>>
  /\ ui = EnsureControls(NoControls, dom, currentSettings)

StoreNext ==
  \/ ModeClick
  \/ OnClearActiveClick
  \/ SaveSettingsDone
  \/ Options
  \/ Delete
  \/ SettingsChanged

StoreSpec == StoreInit /\ [][StoreNext]_vars

\* The options page and the mode buttons together: templates are added and
\* dragged, the change reaches the content script, and a mode button is
\* clicked.
MaxPicks == 4     \* events of a session that ends with a click on a mode button

LateModeClick == \E n \in 1..3 : ModeButtonClick(n, MaxPicks)

PickNext ==
  \/ Create
  \/ Reorder
  \/ SettingsChanged
  \/ LateModeClick
  \/ SaveSettingsDone

PickSpec == OptInit /\ [][PickNext]_vars



\* The same behaviours under the scheduling the platform provides: a message
\* sent is handled, a fetch settles, a response callback runs and a timer
\* that was set fires.
FairSpec ==
  /\ Spec
  /\ WF_vars(ServiceWorker)
  /\ WF_vars(FetchDone)
  /\ WF_vars(Response)
  /\ WF_vars(Timer)

(***************************************************************************)
(* Properties.                                                             *)
(***************************************************************************)
\* The record a job pushed for text t
Pair(i, t) == [original |-> jobs[i].originalPrompt, optimized |-> t]

Queued(i, t) ==
  \E k \in 1..Len(pendingHistory) :
    pendingHistory[k] = [original |-> jobs[i].originalPrompt, optimized |-> t, job |-> i]

\* The record of job i was shifted off the queue for a rendered message.
Dequeued(i) ==
  \E k \in 1..Len(bubbles) : bubbles[k].rec = i

\* C1: a rewrite request (Boost click or Alt+Enter with an active template)
\* made while the busy flag is set changes nothing: no message to the service
\* worker, no write to the editor, no record, no scheduled submit.
C1_BusyRequestIsNoOp ==
  [][ (isProcessing /\ Len(jobs') = Len(jobs) + 1)
        => /\ jobs'[Len(jobs')].phase = "ignored"
           /\ dom' = dom
           /\ pendingHistory' = pendingHistory
           /\ isProcessing' = isProcessing ]_vars

\* C2: no request runs sendPrompt twice or pushes two records, and a request
\* whose scheduled send has run has run sendPrompt exactly once and pushed
\* exactly one record.
C2_ExactlyOnce ==
  \A i \in JobIds :
    /\ Len(jobs[i].sent) <= 1
    /\ Len(jobs[i].pushed) <= 1
    /\ Cardinality({k \in 1..Len(pendingHistory) : pendingHistory[k].job = i}) <= 1
    /\ jobs[i].phase = "done" => Len(jobs[i].sent) = 1 /\ Len(jobs[i].pushed) = 1

\* Two requests have both completed, each with one send and one record.
C2_Witness ==
  \E i, k \in JobIds :
    /\ i # k
    /\ jobs[i].phase = "done" /\ jobs[k].phase = "done"
    /\ jobs[i].choice = "boosted"
    /\ Len(pendingHistory) = 2

\* C3: without the review step, when the service worker answers R for the
\* draft D of a Boosted request, the editor shows exactly R after the write,
\* and the record (D, R) is pushed at the write, before the send: while the
\* send is still to come the record is in the queue, unless the message
\* observer has already taken it out for a rendered message.
C3_RoundTrip ==
  \A i \in JobIds :
    ( /\ jobs[i].type = "boosted"
      /\ jobs[i].via \in {"click", "editor"}
      /\ jobs[i].choice = "none"
      /\ jobs[i].phase \in {"timer", "done"} )
    => /\ jobs[i].response.kind = "ok"
       /\ jobs[i].wrote = <<jobs[i].response.text>>
       /\ jobs[i].surface = jobs[i].response.text
       /\ jobs[i].pushed = <<Pair(i, jobs[i].response.text)>>
       /\ jobs[i].phase = "timer" => /\ jobs[i].sent = <<>>
                                     /\ \/ Queued(i, jobs[i].response.text)
                                        \/ Dequeued(i)

\* A two-line answer with a < in it has been written into the rich editor
\* and its send is pending.
C3_Witness ==
  \E i \in JobIds :
    /\ jobs[i].type = "boosted" /\ jobs[i].via = "click" /\ jobs[i].choice = "none"
    /\ jobs[i].phase = "timer"
    /\ jobs[i].response.text = <<"r", "nl", "lt">>
    /\ FindEditor(dom) = "prosemirror"
    /\ SurfaceText(dom) = <<"r", "nl", "lt">>

\* C4: sendPrompt runs for a request only after the request pushed the record
\* (original draft, text written), and a request that pushed a record has its
\* send scheduled or done.
C4_RecordIffSubmit ==
  \A i \in JobIds :
    /\ jobs[i].sent # <<>>
         => /\ jobs[i].wrote # <<>>
            /\ jobs[i].pushed = <<Pair(i, jobs[i].wrote[Len(jobs[i].wrote)])>>
    /\ jobs[i].pushed # <<>> => jobs[i].phase \in {"timer", "done"}

\* C5: the step that ends a Boosted request whose response is a failure
\* (an error response of the service worker or chrome.runtime.lastError)
\* leaves the editor and the record queue as they were, and the request has
\* written nothing, pushed nothing and sent nothing.
C5_FailureHasNoEffect ==
  [][ \A i \in JobIds :
        ( /\ jobs[i].phase = "replied"
          /\ jobs[i].response.kind # "ok"
          /\ jobs'[i].phase # "replied" )
        => /\ jobs'[i].phase = "failed"
           /\ dom' = dom
           /\ pendingHistory' = pendingHistory
           /\ jobs'[i].wrote = <<>>
           /\ jobs'[i].pushed = <<>>
           /\ jobs'[i].sent = <<>> ]_vars

\* A Boosted request has ended on an HTTP failure after its fetch.
C5_Witness ==
  \E i \in JobIds :
    /\ jobs[i].type = "boosted"
    /\ jobs[i].phase = "failed"
    /\ jobs[i].response.kind = "error"
    /\ jobs[i].response.error = "LLM request failed"
    /\ jobs[i].fetch # <<>>
    /\ jobs[i].wrote = <<>>

\* C6: whenever the busy flag is set it is cleared again: every failure path
\* of a request (an error response, a messaging error, no editor at the
\* write) and every success path ends with the flag cleared.
C6_BusyClears == isProcessing ~> ~isProcessing

\* A Boost click set the flag, its request failed, and the flag is clear.
C6_Witness ==
  \E i \in JobIds :
    /\ jobs[i].via = "click" /\ jobs[i].type = "boosted"
    /\ ~jobs[i].busyAtStart
    /\ jobs[i].phase = "failed"
    /\ jobs[i].response.kind \in {"error", "lastError"}
    /\ ~isProcessing

BodyOf(id) ==
  LET item == CHOOSE it \in {StoredItems[k] : k \in 1..Len(StoredItems)} :
                it.id = id
  IN Trim(item.content)

\* C9: a request with an Append template that wrote, wrote draft, newline,
\* body when the draft it read was not empty and the body alone when it was;
\* the editor showed that text, and no message went to the service worker.
C9_AppendText ==
  \A i \in JobIds :
    (jobs[i].type = "append" /\ jobs[i].wrote # <<>>)
    => LET D == jobs[i].originalPrompt
           body == BodyOf(jobs[i].item)
           expected == IF D = <<>> THEN body ELSE D \o <<"nl">> \o body
       IN /\ body # <<>>
          /\ jobs[i].wrote = <<expected>>
          /\ jobs[i].surface = expected
          /\ jobs[i].fetch = <<>>
          /\ jobs[i].response = NoResponse

\* One Append request wrote on an empty draft and another on a draft.
C9_Witness ==
  \E i, k \in JobIds :
    /\ jobs[i].type = "append" /\ jobs[i].via = "click"
    /\ jobs[i].originalPrompt = <<>> /\ jobs[i].wrote = << <<"x">> >>
    /\ jobs[k].type = "append"
    /\ jobs[k].originalPrompt = <<"x">> /\ jobs[k].wrote = << <<"x", "nl", "x">> >>

\* C10: after Use Original in the review panel the text written is the draft
\* D the request read when it was made, the editor shows D, the record
\* pushed is (D, D) and the send is scheduled; or there was no editor and
\* nothing was written.
C10_UseOriginal ==
  \A i \in JobIds :
    jobs[i].choice = "original"
    => \/ /\ jobs[i].phase = "failed"
          /\ jobs[i].wrote = <<>> /\ jobs[i].pushed = <<>> /\ jobs[i].sent = <<>>
       \/ /\ jobs[i].phase \in {"timer", "done"}
          /\ jobs[i].wrote = <<jobs[i].originalPrompt>>
          /\ jobs[i].surface = jobs[i].originalPrompt
          /\ jobs[i].pushed = <<Pair(i, jobs[i].originalPrompt)>>
          /\ jobs[i].phase = "timer" => \/ Queued(i, jobs[i].originalPrompt)
                                        \/ Dequeued(i)

\* Use Original was chosen after the user had changed the draft, and the
\* send has run.
C10_Witness ==
  \E i \in JobIds :
    /\ jobs[i].choice = "original"
    /\ jobs[i].phase = "done"
    /\ jobs[i].response.kind = "ok"
    /\ jobs[i].wrote = <<jobs[i].originalPrompt>>
    /\ envCount > 0

\* C11: once a Boosted request has its result and the review step is on, the
\* request ends with a send: it never ends written without a scheduled send
\* ("applied") and never ends with its panel removed without a choice
\* ("abandoned").
C11_PreviewAlwaysSends ==
  \A i \in JobIds : jobs[i].phase \notin {"applied", "abandoned"}

\* C12: with previewBeforeSend on, the callback that receives a successful
\* response writes nothing into the editor and only shows the review panel;
\* and a request whose panel is showing has written and sent nothing.
C12_NoWriteBeforeChoice ==
  [][ \A i \in JobIds :
        /\ ( /\ jobs[i].phase = "replied"
             /\ jobs[i].response.kind = "ok"
             /\ currentSettings.previewBeforeSend
             /\ jobs'[i].phase # "replied" )
           => /\ jobs'[i].phase = "preview"
              /\ jobs'[i].wrote = <<>>
              /\ dom' = dom
        /\ jobs'[i].phase = "preview"
             => jobs'[i].wrote = <<>> /\ jobs'[i].sent = <<>> ]_vars

\* The message element the host page has just rendered
NewestBubble == bubbles'[Len(bubbles')]

\* The newest message's normalized text contains the oldest record's
\* normalized text
OldestMatches ==
  /\ pendingHistory # <<>>
  /\ NormalizeText(Head(pendingHistory).optimized) # <<>>
  /\ Includes(NormalizeText(NewestBubble.text),
              NormalizeText(Head(pendingHistory).optimized))

\* C13: when a newly rendered user message contains (normalized) the oldest
\* record's rewritten text, the message gets that record's original as its
\* note and exactly that record leaves the queue; a note never comes from any
\* record but the oldest, and the rest of the queue keeps its order.
C13_AnnotateFifo ==
  [][ Len(bubbles') = Len(bubbles) + 1
        => /\ OldestMatches
                => /\ NewestBubble.notes = <<Head(pendingHistory).original>>
                   /\ NewestBubble.rec = Head(pendingHistory).job
                   /\ pendingHistory' = Tail(pendingHistory)
           /\ NewestBubble.notes # <<>> => OldestMatches
           /\ pendingHistory' \in {pendingHistory, Tail(pendingHistory)} ]_vars

\* A message was annotated from the older of two queued records and the
\* newer one is still queued.
C13_Witness ==
  /\ Len(bubbles) = 1
  /\ bubbles[1].annotated
  /\ bubbles[1].rec = 1
  /\ bubbles[1].notes = <<jobs[1].originalPrompt>>
  /\ Len(pendingHistory) = 1
  /\ pendingHistory[1].job = 2

\* C14: when a newly rendered user message does not contain the oldest
\* record's rewritten text, that record is removed from the queue and the
\* message gets no note.
C14_DiscardOnMismatch ==
  [][ ( /\ Len(bubbles') = Len(bubbles) + 1
        /\ pendingHistory # <<>>
        /\ ~OldestMatches )
        => /\ pendingHistory' = Tail(pendingHistory)
           /\ NewestBubble.notes = <<>> ]_vars

\* C15: a message that carries a note carries the original draft of the
\* request whose send produced the message.
C15_NoWrongAttribution ==
  \A k \in 1..Len(bubbles) :
    bubbles[k].notes # <<>>
    => /\ bubbles[k].job \in JobIds
       /\ bubbles[k].notes = <<jobs[bubbles[k].job].originalPrompt>>

\* C16: the persisted active template id is null or the id of a template in
\* the persisted list (so deleting the active template clears it).
C16_ActiveIdValid ==
  \/ stored.activeItemId = NoId
  \/ \E k \in 1..Len(stored.items) : stored.items[k].id = stored.activeItemId

\* C17: every request made to the text-generation service for a Boosted
\* template carries the draft as the user turn and the template's body in
\* its instruction (the system turn).
C17_RequestCarriesRule ==
  \A i \in JobIds :
    \A k \in 1..Len(jobs[i].fetch) :
      LET messages == jobs[i].fetch[k].messages
      IN /\ messages[2].role = "user"
         /\ messages[2].content = jobs[i].originalPrompt
         /\ \E m \in 1..Len(messages) :
              /\ messages[m].role = "system"
              /\ jobs[i].rule # <<>>
              /\ Includes(messages[m].content, jobs[i].rule)

\* C18: whatever a request with a Boosted template writes, it writes after a
\* fetch answered successfully, and the text is the answer (no review
\* choice), the original draft (Use Original) or the text of the review box
\* (Use Boosted); never the template body without a service call.
C18_BoostedWritesResult ==
  \A i \in JobIds :
    (jobs[i].type = "boosted" /\ jobs[i].wrote # <<>>)
    => /\ jobs[i].fetch # <<>>
       /\ jobs[i].response.kind = "ok"
       /\ jobs[i].choice = "none" => jobs[i].wrote = <<jobs[i].response.text>>
       /\ jobs[i].choice = "original" => jobs[i].wrote = <<jobs[i].originalPrompt>>

\* C19: whether a Boosted request goes through the review step is decided
\* by previewBeforeSend as it was when the request was made: a request
\* shows (or went through) the review panel only if the flag was on then,
\* and writes without review only if it was off then.
C19_PreviewSnapshot ==
  \A i \in JobIds :
    (jobs[i].type = "boosted" /\ jobs[i].via \in {"click", "editor"})
    => /\ (jobs[i].phase \in {"preview", "applied", "abandoned"} \/ jobs[i].choice # "none")
            => jobs[i].previewAtStart
       /\ (jobs[i].choice = "none" /\ jobs[i].phase \in {"timer", "done"})
            => ~jobs[i].previewAtStart

\* C20: a save started on the chat page (setActiveItemId -> saveSettings)
\* leaves the persisted configuration as it was.
C20_ChatPageNeverWrites ==
  [][ (pendingSave.pending /\ ~pendingSave'.pending) => stored' = stored ]_vars

\* C21: a send the user makes with the host's own send button or with a plain
\* Enter leaves the draft as it is, starts no request (no message to the
\* service worker, no fetch) and pushes no record, with or without an active
\* template.
C21_NativeSendUntouched ==
  [][ Len(nativeSends') > Len(nativeSends)
        => /\ SurfaceText(dom') = SurfaceText(dom)
           /\ ReadPrompt(dom') = ReadPrompt(dom)
           /\ jobs' = jobs
           /\ pendingHistory' = pendingHistory ]_vars

\* With a template active and a draft in the editor, the user has sent once
\* with the send button and once with Enter.
C21_Witness ==
  /\ Len(nativeSends) = 2
  /\ nativeSends[1].by = "click" /\ nativeSends[2].by = "enter"
  /\ Trim(nativeSends[1].text) # <<>>
  /\ GetActiveItem # NoItem
  /\ jobs = <<>> /\ pendingHistory = <<>>

\* No template is selected, or the active id names no template of the list.
NoActiveTemplate ==
  \/ GetActiveItemId = NoId
  \/ \A k \in 1..Len(currentSettings.items) : currentSettings.items[k].id # GetActiveItemId

\* C22: a Boost click made when no template is selected, or when the active
\* id names a template that is no longer in the list, has no effect: the
\* busy flag, the editor and the queue are as before, no message goes to the
\* service worker, nothing is written and no send is scheduled; when the
\* click is not dropped at the busy guard it shows the notice.  The request
\* stays that way afterwards.
C22_NoTemplateRejected ==
  [][ /\ ( /\ Len(jobs') = Len(jobs) + 1
           /\ jobs'[Len(jobs')].via = "click"
           /\ NoActiveTemplate )
        => LET job == jobs'[Len(jobs')]
           IN /\ job.phase \in {"rejected", "ignored"}
              /\ ~isProcessing
                   => /\ job.phase = "rejected"
                      /\ job.notice = "Please select a mode before clicking Boost."
              /\ isProcessing' = isProcessing
              /\ dom' = dom
              /\ pendingHistory' = pendingHistory
              /\ job.fetch = <<>> /\ job.wrote = <<>> /\ job.pushed = <<>> /\ job.sent = <<>>
      /\ \A i \in JobIds : jobs[i].phase = "rejected" => jobs'[i] = jobs[i] ]_vars

\* Boost was clicked while the active id named a deleted template, and the
\* click was rejected with the notice.
C22_Witness ==
  \E i \in JobIds :
    /\ jobs[i].via = "click" /\ jobs[i].phase = "rejected"
    /\ jobs[i].notice = "Please select a mode before clicking Boost."
    /\ GetActiveItemId # NoId
    /\ NoActiveTemplate
    /\ ~isProcessing

\* The active template is an Append template whose body is blank.
BlankAppendActive ==
  /\ GetActiveItem.type = "append"
  /\ \A k \in 1..Len(GetActiveItem.content) : IsSpace(GetActiveItem.content[k])

\* C23: a request (Boost click or Alt+Enter) made while the active template
\* is an Append template with a blank body is rejected before any effect:
\* the editor, the queue and the busy flag are as before, and the request
\* has written nothing, pushed no record and scheduled no send.
C23_BlankAppendRejected ==
  [][ (Len(jobs') = Len(jobs) + 1 /\ BlankAppendActive)
        => LET job == jobs'[Len(jobs')]
           IN /\ job.phase \in {"rejected", "ignored"}
              /\ job.via \in {"global", "editor"} => job.phase = "rejected"
              /\ job.phase = "rejected" => job.notice = "Selected Append item is empty."
              /\ dom' = dom
              /\ pendingHistory' = pendingHistory
              /\ isProcessing' = isProcessing
              /\ job.wrote = <<>> /\ job.pushed = <<>> /\ job.sent = <<>>
              /\ job.timerNo = 0 ]_vars

\* The blank Append template was rejected once on the Boost button and once
\* on Alt+Enter, and the page is idle.
C23_Witness ==
  /\ Len(jobs) = 2
  /\ jobs[1].via = "click" /\ jobs[2].via \in {"global", "editor"}
  /\ \A i \in JobIds : /\ jobs[i].item = "append_blank"
                        /\ jobs[i].phase = "rejected"
                        /\ jobs[i].notice = "Selected Append item is empty."
  /\ ~isProcessing

\* A handler or callback found no editor at its write step in this step.
WriteFailedNow(i) ==
  /\ i \in 1..Len(jobs')
  /\ jobs'[i].phase = "failed"
  /\ jobs'[i].notice = "Unable to update the chat input field."
  /\ i \in JobIds => jobs[i].phase # "failed"

\* C24: when a request reaches its write step and there is no editor, the
\* request fails: it pushes no record, schedules no send, and the busy flag
\* is clear afterwards.
C24_WriteFailureClearsBusy ==
  [][ \A i \in 1..Len(jobs') :
        WriteFailedNow(i)
        => /\ FindEditor(dom) = "none"
           /\ dom' = dom
           /\ pendingHistory' = pendingHistory
           /\ jobs'[i].pushed = <<>> /\ jobs'[i].sent = <<>> /\ jobs'[i].timerNo = 0
           /\ ~isProcessing' ]_vars

\* No two templates of the list have the same id.
UniqueIds(items) ==
  \A i, k \in 1..Len(items) : items[i].id = items[k].id => i = k

\* C25: whatever templates the options page has added, edited, deleted and
\* dragged, no two templates share an id, in the page's list and in the
\* stored list.
C25_UniqueIds ==
  UniqueIds(optState.items) /\ UniqueIds(stored.items)

\* C26: an edit of the template in any row of the options page's list gives
\* that row the new kind and body under its old id, keeps the list's length,
\* and leaves every other row as it was.
C26_EditChangesOnlyItsRow ==
  \A row \in 1..Len(optState.items), t \in ItemTypes, c \in Bodies :
    LET before == optState.items
        after == EditItem(before, row, t, c)
    IN /\ Len(after) = Len(before)
       /\ after[row] = [id |-> before[row].id, type |-> t, content |-> c]
       /\ \A k \in 1..Len(before) : k # row => after[k] = before[k]

\* What the mode buttons would show for the first three of a list
Shown(items) ==
  [k \in 1..Len(TopThree(items)) |->
     [id |-> TopThree(items)[k].id, type |-> TopThree(items)[k].type]]

\* C27: once every change of the stored templates has reached the content
\* script, the mode buttons in the composer are the first three templates of
\* the stored list, in its order and with their current kinds.
C27_ControlsAreFirstThree ==
  (~notify /\ ui.hostIn = "slot") => ui.rendered = Shown(stored.items)

\* The controls are attached at their anchors: the Boost button immediately
\* before the send button, or in the trailing container when there is no send
\* button; one mode-button host, in the composer's header slot.
Attached ==
  /\ dom.composer
  /\ IF dom.sendButton THEN ui.boostPlace = "send" /\ ui.boostBefore
                        ELSE ui.boostPlace = "trailing"
  /\ ui.hostIn = "slot"
  /\ ui.strays = 0

\* C28: whenever the controls are attached at their anchors, one more run of
\* ensureBoostButton and ensureModeButtons with the settings the content
\* script holds changes nothing in the document: no insert, no move, no
\* removal, no re-render.
C28_EnsureIdempotent ==
  Attached => /\ DomMutations(ui, dom, currentSettings) = 0
              /\ EnsureControls(ui, dom, currentSettings) = ui

\* The controls are attached after the active template was chosen on the page
\* (the host was rendered again for it), and one more run changes nothing
C28_Witness ==
  /\ Attached
  /\ currentSettings.activeItemId # "null"
  /\ ui.sig = NextSig(currentSettings)
  /\ DomMutations(ui, dom, currentSettings) = 0

\* C29: once the observer callback has run after a change of the page, a
\* page with a send button has the Boost button immediately before it, and
\* there is no second mode-button host in the document.
C29_ReattachedBeforeSend ==
  /\ dom.sendButton => (ui.boostPlace = "send" /\ ui.boostBefore)
  /\ (IF ui.hostIn = "none" THEN 0 ELSE 1) + ui.strays <= 1

\* The partial updates a caller can hand to saveSettings
Updates ==
  LET full(k, p, a) == [apiKey |-> k, apiBaseUrl |-> "url", model |-> "gpt-4o-mini",
                        previewBeforeSend |-> p, items |-> Tail(StoredItems),
                        activeItemId |-> a]
  IN {Restrict(r, K) : r \in {full("sk", TRUE, "replace_creative"), full("", FALSE, NoId)},
                       K \in SUBSET StoredKeys}

\* getSettings() has the keys of the defaults and of what is stored, each
\* stored key with its stored value and every other key with its default
GetIsDefaultsUnderStored ==
  /\ DOMAIN GetSettings = (DOMAIN DEFAULT_SETTINGS) \cup (DOMAIN stored)
  /\ \A k \in DOMAIN stored : GetSettings[k] = stored[k]
  /\ \A k \in (DOMAIN DEFAULT_SETTINGS) \ (DOMAIN stored) :
       GetSettings[k] = DEFAULT_SETTINGS[k]

\* saveSettings(p) gives the current configuration with the keys of p replaced
SaveReplacesOnly(p) ==
  LET next == SaveSettings(p)
  IN /\ DOMAIN next = (DOMAIN GetSettings) \cup (DOMAIN p)
     /\ \A k \in DOMAIN p : next[k] = p[k]
     /\ \A k \in (DOMAIN stored) \ (DOMAIN p) : next[k] = stored[k]
     /\ \A k \in (DOMAIN GetSettings) \ (DOMAIN p) : next[k] = GetSettings[k]

\* C30: reading the settings gives the defaults overridden by every stored
\* key; saving a partial update gives the current configuration with only the
\* update's keys replaced, every other stored key as it was; and the save in
\* flight writes exactly that value to storage and hands it to its caller.
C30_StoreMerge ==
  /\ [](GetIsDefaultsUnderStored /\ \A p \in Updates : SaveReplacesOnly(p))
  /\ [][(pendingSave.pending /\ ~pendingSave'.pending) =>
          /\ SaveReplacesOnly(pendingSave.next)
          /\ stored' = SaveSettings(pendingSave.next)
          /\ currentSettings' = stored']_vars

\* The options page's form has saved an apiKey the content script has not
\* received yet, and the stored active template, a key the form does not
\* send, is still in storage
C30_Witness ==
  /\ notify
  /\ stored.apiKey = "sk"
  /\ currentSettings.apiKey = ""
  /\ "activeItemId" \in DOMAIN stored
  /\ stored.activeItemId = "replace_creative"
  /\ "previewBeforeSend" \in DOMAIN stored

\* C31: the observer's callback handles a message element once: no element
\* is run through annotateIfUserMessage's queue test a second time.
C31_HandledOnce ==
  \A k \in 1..Len(bubbles) : bubbles[k].checks <= 1

\* A review panel is showing and waits for the user's choice
Reviewing ==
  /\ preview.job # 0
  /\ ~preview.collapsing
  /\ jobs[preview.job].phase = "preview"

\* C32: while a review panel waits for the user's choice the busy flag is
\* set (and with it the Boost button is disabled).
C32_BusyWhileReviewing ==
  Reviewing => isProcessing

\* C33: a request that has written its text and whose submit is still to
\* come (its timer has not fired) keeps the busy flag set: the flag is
\* cleared only after sendPrompt has run.
C33_BusyUntilSubmit ==
  \A i \in JobIds : jobs[i].phase = "timer" => isProcessing

\* C34: a request's original text is the draft read when the request was
\* made; no later step changes it, every record in the queue carries it as
\* its original, and Use Original writes it, whatever the editor holds by then.
C34_OriginalIsCaptured ==
  [][ /\ \A i \in JobIds :
           /\ i \in 1..Len(jobs')
           /\ jobs'[i].originalPrompt = jobs[i].originalPrompt
           /\ (jobs[i].choice = "none" /\ jobs'[i].choice = "original"
                  /\ jobs'[i].wrote # jobs[i].wrote)
               => jobs'[i].wrote = <<jobs[i].originalPrompt>>
      /\ \A i \in 1..Len(jobs') :
           (i \notin JobIds /\ jobs'[i].phase \notin {"ignored", "rejected"})
           => jobs'[i].originalPrompt = ReadPrompt(dom)
      /\ \A k \in 1..Len(pendingHistory') :
           pendingHistory'[k].original = jobs'[pendingHistory'[k].job].originalPrompt ]_vars

\* The user typed another draft while the only request's service call was
\* outstanding, and the record the request then pushed still has the draft
\* read at the click
C34_Witness ==
  \E i \in JobIds :
    /\ Len(jobs) = 1
    /\ jobs[i].draftAtWrite # <<>>
    /\ jobs[i].via = "click"
    /\ jobs[i].response.kind = "ok"
    /\ jobs[i].phase = "timer"
    /\ jobs[i].draftAtWrite # jobs[i].originalPrompt
    /\ \E k \in 1..Len(pendingHistory) :
         /\ pendingHistory[k].job = i
         /\ pendingHistory[k].original = jobs[i].originalPrompt
         /\ pendingHistory[k].original # jobs[i].draftAtWrite

\* The templates of a settings object that its active id names
ActiveTemplates(settings) ==
  {k \in 1..Len(settings.items) : settings.items[k].id = ActiveIdOf(settings)}

\* C35: a click on a mode button (or on Clear) only asks for a new active
\* id: null when the button's template was the active one, else that
\* template's id; it changes nothing in the editor, pushes no record and
\* starts no request; and the active id names at most one template of the
\* list, in storage and in the content script.
C35_ClickOnlyToggles ==
  /\ [](Cardinality(ActiveTemplates(stored)) <= 1
         /\ Cardinality(ActiveTemplates(currentSettings)) <= 1)
  /\ [][(~pendingSave.pending /\ pendingSave'.pending) =>
          /\ dom' = dom /\ pendingHistory' = pendingHistory /\ jobs' = jobs
          /\ preview' = preview /\ stored' = stored
          /\ \A key \in DOMAIN currentSettings \ {"activeItemId"} :
               pendingSave'.next[key] = currentSettings[key]
          /\ LET id == pendingSave'.next.activeItemId
             IN /\ id # GetActiveItemId
                /\ id # NoId => \E n \in 1..Len(ModeButtons) : ModeButtons[n].id = id
                /\ id = NoId => GetActiveItemId # NoId ]_vars

\* A list without its k-th element
WithoutRow(items, k) == SubSeq(items, 1, k - 1) \o SubSeq(items, k + 1, Len(items))

\* For any two ids, known or not, reorderItems leaves the list alone when
\* one of them is unknown, and else moves the first template carrying the
\* dragged id to the index of the first template carrying the target id, the
\* other templates being the same, in the same order.
ReorderByIdIsPermutation ==
  \A draggedId, targetId \in ItemIds \cup GenIds \cup {NoId} :
    LET items == optState.items
        after == ReorderItems(items, draggedId, targetId)
        fromIdx == FindIndex(items, draggedId)
        toIdx == FindIndex(items, targetId)
    IN IF fromIdx = 0 \/ toIdx = 0 THEN after = items
       ELSE /\ Len(after) = Len(items)
            /\ after[toIdx] = items[fromIdx]
            /\ WithoutRow(after, toIdx) = WithoutRow(items, fromIdx)

\* C36: when the template in one row of the options page's list is dragged
\* onto the template in another row, the list keeps its length, the dragged
\* template sits at the index the target had, and the other templates are
\* the same, in the same order; an unknown id leaves the list unchanged.
C36_ReorderIsPermutation ==
  /\ \A d, t \in 1..Len(optState.items) :
       LET items == optState.items
           after == ReorderItems(items, items[d].id, items[t].id)
       IN (d = t \/ items[d].id # items[t].id)
          => /\ Len(after) = Len(items)
             /\ after[t] = items[d]
             /\ WithoutRow(after, t) = WithoutRow(items, d)
  /\ \A id \in ItemIds \cup GenIds :
       /\ ReorderItems(optState.items, NoId, id) = optState.items
       /\ ReorderItems(optState.items, id, NoId) = optState.items

\* C37: a send is logged for a request only by the step in which its timer
\* runs sendPrompt; that step clicks the send button when there is one, else
\* dispatches an Enter keydown on the editor when there is one, else does
\* nothing; and it leaves the text of the editor as it was.
C37_SubmitOnly ==
  [][ \A i \in JobIds :
        jobs'[i].sent # jobs[i].sent
        => /\ jobs[i].phase = "timer"
           /\ jobs'[i].sent =
                Append(jobs[i].sent,
                       IF dom.sendButton THEN "click"
                       ELSE IF dom.pm \/ dom.ta THEN "keydown"
                       ELSE "none")
           /\ dom'.paras = dom.paras /\ dom'.value = dom.value
           /\ dom'.pm = dom.pm /\ dom'.ta = dom.ta
           /\ \A k \in JobIds \ {i} : jobs'[k].sent = jobs[k].sent ]_vars

\* A page without a send button: the request's sendPrompt dispatched the
\* Enter keydown on the editor, whose text is what the request wrote
C37_Witness ==
  \E i \in JobIds :
    /\ jobs[i].sent = <<"keydown">>
    /\ ~dom.sendButton
    /\ jobs[i].phase = "done"
    /\ jobs[i].wrote # <<>>
    /\ SurfaceText(dom) = jobs[i].surface

\* The texts all requests have written, the records they have pushed, and
\* the timers they have set
RECURSIVE TotalOf(_, _)
TotalOf(js, field) ==
  IF js = <<>> THEN 0
  ELSE (IF field = "wrote" THEN Len(Head(js).wrote)
        ELSE IF field = "pushed" THEN Len(Head(js).pushed)
        ELSE IF Head(js).timerNo > 0 THEN 1 ELSE 0)
       + TotalOf(Tail(js), field)

\* C38: one Alt+Enter keydown, wherever its target is, runs the body of at
\* most one of the three keydown listeners; and no step adds more than one
\* request, one write, one pushed record or one scheduled send.
C38_HandledAtMostOnce ==
  [][ /\ \A target \in {"editor", "composer", "page"} : Len(HandlersRun(target)) <= 1
      /\ Len(jobs') <= Len(jobs) + 1
      /\ TotalOf(jobs', "wrote") <= TotalOf(jobs, "wrote") + 1
      /\ TotalOf(jobs', "pushed") <= TotalOf(jobs, "pushed") + 1
      /\ TotalOf(jobs', "timer") <= TotalOf(jobs, "timer") + 1
      /\ Len(pendingHistory') <= Len(pendingHistory) + 1 ]_vars

\* Alt+Enter in an editor outside the composer form: globalHandler returned
\* on window and on document, and the editor's own listener wrote the
\* Append text once, pushed one record and set one timer
C38_Witness ==
  /\ Len(jobs) = 1
  /\ jobs[1].via = "editor"
  /\ jobs[1].type = "append"
  /\ jobs[1].phase = "timer"
  /\ Len(jobs[1].wrote) = 1
  /\ Len(jobs[1].pushed) = 1
  /\ Len(pendingHistory) = 1

\* The keys whose configured value a write to storage changes although the
\* writer's own change was to none of them
LostKeys(writerKeys) ==
  {k \in DOMAIN GetSettings : stored'[k] # GetSettings[k] /\ k \notin writerKeys}

\* C39: settings writes lose no update: a write by the content script (the
\* save setActiveItemId started) changes the configured value of
\* activeItemId only, and a write by the options page changes only the keys
\* the page itself has given a new value, so a change the other side has
\* persisted to a different key stays in storage.
C39_NoLostUpdate ==
  [][stored' # stored =>
       IF pendingSave.pending /\ ~pendingSave'.pending
       THEN LostKeys({"activeItemId"}) = {}
       ELSE LostKeys({k \in DOMAIN optState : stored'[k] # optState[k]}) = {}]_vars

\* The message elements that took record j off the queue
TakersOf(j) ==
  {k \in 1..Len(bubbles) : \E n \in 1..Len(bubbles[k].took) : bubbles[k].took[n] = j}

\* C40: however often the observer's callback is handed a message element,
\* the element carries at most one original-prompt note and has taken at
\* most one record off the queue, no record was taken by two elements, and
\* every step that dequeues a record by a match adds that record's original
\* as the one note of exactly one element and leaves every other element
\* as it was.
C40_AnnotatedOnce ==
  /\ [](/\ \A k \in 1..Len(bubbles) :
             /\ Len(bubbles[k].notes) <= 1
             /\ Len(bubbles[k].took) <= 1
             /\ bubbles[k].annotated <=> bubbles[k].notes # <<>>
         /\ \A j \in JobIds : Cardinality(TakersOf(j)) <= 1)
  /\ [][(Len(pendingHistory') < Len(pendingHistory)
          /\ NormalizeText(Head(pendingHistory).optimized) # <<>>) =>
         \E k \in 1..Len(bubbles') :
            /\ bubbles'[k].notes = <<Head(pendingHistory).original>>
            /\ bubbles'[k].took = <<Head(pendingHistory).job>>
            /\ k <= Len(bubbles) => bubbles[k].notes = <<>>
            /\ \A o \in 1..Len(bubbles) : o # k => bubbles'[o] = bubbles[o]]_vars

\* An annotated message element while the record now at the head of the
\* queue matches its text too: handed to the callback again, only the
\* membership test keeps it from a second note
C40_Witness ==
  \E k \in 1..Len(bubbles) :
     /\ bubbles[k].annotated
     /\ Len(bubbles[k].notes) = 1
     /\ pendingHistory # <<>>
     /\ Includes(NormalizeText(NodeText(bubbles[k])),
                 NormalizeText(Head(pendingHistory).optimized))

====
